---- MODULE Spec2Model ----
(***************************************************************************)
(* Model of bump_version.py: the release script that synchronises the      *)
(* version of setup.py with basicmicro/__init__.py, bumps it, rewrites     *)
(* both files and commits and tags the result.                             *)
(*                                                                         *)
(* Text is a sequence of tokens; the text a sequence stands for is the     *)
(* concatenation of its tokens.  A token is one character, with these      *)
(* exceptions: the two field keys are one token each wherever their        *)
(* characters occur in a file or a version, and a commit message is made   *)
(* of the words feat, fix, perf and the marks ":", "(" and "!" next to     *)
(* single characters.  The inputs of the runs use the two quotes, the      *)
(* comma, the backslash, the newline, the space, the decimal digits, the   *)
(* dot and the letters "n" and "x"; the escapes of a replacement template  *)
(* can produce every character up to code 255, so Chr names them all.  A   *)
(* character a string of this language cannot hold (a control character    *)
(* other than tab, newline, form feed and carriage return, the backtick, a *)
(* character above code 126) is the token "chr(N)" of its code N.  Files   *)
(* are read and written as UTF-8.                                          *)
(***************************************************************************)
EXTENDS Integers, Sequences, FiniteSets, TLC

\* ------------------------------------------------------------------ tokens
IK == "__version__ = "
SK == "version="
DQ == "\""
SQ == "'"
CM == ","
BS == "\\"
NL == "\n"
SP == " "
DOT == "."
Digits == <<"0", "1", "2", "3", "4", "5", "6", "7", "8", "9">>
AsciiDigitSet == {Digits[i] : i \in 1..10}
OctDigitSet == {Digits[i] : i \in 1..8}

\* the characters of codes 32 to 126, in order
AsciiPrintable ==
  <<" ", "!", "\"", "#", "$", "%", "&", "'", "(", ")", "*", "+", ",", "-", ".", "/",
    "0", "1", "2", "3", "4", "5", "6", "7", "8", "9", ":", ";", "<", "=", ">", "?",
    "@", "A", "B", "C", "D", "E", "F", "G", "H", "I", "J", "K", "L", "M", "N", "O",
    "P", "Q", "R", "S", "T", "U", "V", "W", "X", "Y", "Z", "[", "\\", "]", "^", "_",
    "chr(96)", "a", "b", "c", "d", "e", "f", "g", "h", "i", "j", "k", "l", "m", "n",
    "o", "p", "q", "r", "s", "t", "u", "v", "w", "x", "y", "z", "{", "|", "}", "~">>

\* chr(n), the token of the character of code n
Chr(n) ==
  IF n \in 32..126 THEN AsciiPrintable[n - 31]
  ELSE IF n = 9 THEN "\t"
  ELSE IF n = 10 THEN NL
  ELSE IF n = 12 THEN "\f"
  ELSE IF n = 13 THEN "\r"
  ELSE "chr(" \o ToString(n) \o ")"

CR == Chr(13)

\* the value of an ASCII digit
AsciiDigitValue(d) == CHOOSE k \in 0..9 : Digits[k + 1] = d

\* the number a string of ASCII digits writes
RECURSIVE DecimalOf(_)
DecimalOf(str) ==
  IF Len(str) = 0 THEN 0
  ELSE 10 * DecimalOf(SubSeq(str, 1, Len(str) - 1))
         + AsciiDigitValue(SubSeq(str, Len(str), Len(str)))

\* ord(c), the code of the character a token is; -1 for a token of more
\* than one character
Ord(c) ==
  IF Len(c) = 1
  THEN IF c = "\t" THEN 9
       ELSE IF c = NL THEN 10
       ELSE IF c = "\f" THEN 12
       ELSE IF c = "\r" THEN 13
       ELSE CHOOSE n \in 32..126 : AsciiPrintable[n - 31] = c
  ELSE IF Len(c) > 5 /\ SubSeq(c, 1, 4) = "chr(" /\ SubSeq(c, Len(c), Len(c)) = ")"
  THEN DecimalOf(SubSeq(c, 5, Len(c) - 1))
  ELSE -1

\* whether the code n lies in a range <<first, last>> of the table
InRanges(n, table) == \E i \in DOMAIN table : table[i][1] <= n /\ n <= table[i][2]

\* The character classes below are those of Unicode 14.0, the version of the
\* Python 3.11 the script was run with.

\* the codes of the digits zero of the decimal digits; the nine codes after
\* each are the digits one to nine
DecimalZeros ==
  <<48, 1632, 1776, 1984, 2406, 2534, 2662, 2790, 2918, 3046,
    3174, 3302, 3430, 3558, 3664, 3792, 3872, 4160, 4240, 6112,
    6160, 6470, 6608, 6784, 6800, 6992, 7088, 7232, 7248, 42528,
    43216, 43264, 43472, 43504, 43600, 44016, 65296, 66720, 68912, 69734,
    69872, 69942, 70096, 70384, 70736, 70864, 71248, 71360, 71472, 71904,
    72016, 72784, 73040, 73120, 92768, 92864, 93008, 120782, 120792, 120802,
    120812, 120822, 123200, 123632, 125264, 130032>>

\* str.isdecimal() of one character: the characters int() reads as digits
IsDecimal(c) ==
  \E i \in DOMAIN DecimalZeros : DecimalZeros[i] <= Ord(c) /\ Ord(c) <= DecimalZeros[i] + 9

\* the value of a decimal digit
DigitValue(d) ==
  LET i == CHOOSE j \in DOMAIN DecimalZeros :
                DecimalZeros[j] <= Ord(d) /\ Ord(d) <= DecimalZeros[j] + 9
  IN Ord(d) - DecimalZeros[i]

\* the codes str.isspace() is true of
SpaceRanges ==
  <<<<9, 13>>, <<28, 32>>, <<133, 133>>, <<160, 160>>, <<5760, 5760>>, <<8192, 8202>>,
    <<8232, 8233>>, <<8239, 8239>>, <<8287, 8287>>, <<12288, 12288>>>>

\* the codes a Python identifier may start with, "_" apart
XidStartRanges ==
  <<<<65, 90>>, <<97, 122>>, <<170, 170>>, <<181, 181>>, <<186, 186>>, <<192, 214>>,
    <<216, 246>>, <<248, 705>>, <<710, 721>>, <<736, 740>>, <<748, 748>>, <<750, 750>>,
    <<880, 884>>, <<886, 887>>, <<891, 893>>, <<895, 895>>, <<902, 902>>, <<904, 906>>,
    <<908, 908>>, <<910, 929>>, <<931, 1013>>, <<1015, 1153>>, <<1162, 1327>>, <<1329, 1366>>,
    <<1369, 1369>>, <<1376, 1416>>, <<1488, 1514>>, <<1519, 1522>>, <<1568, 1610>>, <<1646, 1647>>,
    <<1649, 1747>>, <<1749, 1749>>, <<1765, 1766>>, <<1774, 1775>>, <<1786, 1788>>, <<1791, 1791>>,
    <<1808, 1808>>, <<1810, 1839>>, <<1869, 1957>>, <<1969, 1969>>, <<1994, 2026>>, <<2036, 2037>>,
    <<2042, 2042>>, <<2048, 2069>>, <<2074, 2074>>, <<2084, 2084>>, <<2088, 2088>>, <<2112, 2136>>,
    <<2144, 2154>>, <<2160, 2183>>, <<2185, 2190>>, <<2208, 2249>>, <<2308, 2361>>, <<2365, 2365>>,
    <<2384, 2384>>, <<2392, 2401>>, <<2417, 2432>>, <<2437, 2444>>, <<2447, 2448>>, <<2451, 2472>>,
    <<2474, 2480>>, <<2482, 2482>>, <<2486, 2489>>, <<2493, 2493>>, <<2510, 2510>>, <<2524, 2525>>,
    <<2527, 2529>>, <<2544, 2545>>, <<2556, 2556>>, <<2565, 2570>>, <<2575, 2576>>, <<2579, 2600>>,
    <<2602, 2608>>, <<2610, 2611>>, <<2613, 2614>>, <<2616, 2617>>, <<2649, 2652>>, <<2654, 2654>>,
    <<2674, 2676>>, <<2693, 2701>>, <<2703, 2705>>, <<2707, 2728>>, <<2730, 2736>>, <<2738, 2739>>,
    <<2741, 2745>>, <<2749, 2749>>, <<2768, 2768>>, <<2784, 2785>>, <<2809, 2809>>, <<2821, 2828>>,
    <<2831, 2832>>, <<2835, 2856>>, <<2858, 2864>>, <<2866, 2867>>, <<2869, 2873>>, <<2877, 2877>>,
    <<2908, 2909>>, <<2911, 2913>>, <<2929, 2929>>, <<2947, 2947>>, <<2949, 2954>>, <<2958, 2960>>,
    <<2962, 2965>>, <<2969, 2970>>, <<2972, 2972>>, <<2974, 2975>>, <<2979, 2980>>, <<2984, 2986>>,
    <<2990, 3001>>, <<3024, 3024>>, <<3077, 3084>>, <<3086, 3088>>, <<3090, 3112>>, <<3114, 3129>>,
    <<3133, 3133>>, <<3160, 3162>>, <<3165, 3165>>, <<3168, 3169>>, <<3200, 3200>>, <<3205, 3212>>,
    <<3214, 3216>>, <<3218, 3240>>, <<3242, 3251>>, <<3253, 3257>>, <<3261, 3261>>, <<3293, 3294>>,
    <<3296, 3297>>, <<3313, 3314>>, <<3332, 3340>>, <<3342, 3344>>, <<3346, 3386>>, <<3389, 3389>>,
    <<3406, 3406>>, <<3412, 3414>>, <<3423, 3425>>, <<3450, 3455>>, <<3461, 3478>>, <<3482, 3505>>,
    <<3507, 3515>>, <<3517, 3517>>, <<3520, 3526>>, <<3585, 3632>>, <<3634, 3634>>, <<3648, 3654>>,
    <<3713, 3714>>, <<3716, 3716>>, <<3718, 3722>>, <<3724, 3747>>, <<3749, 3749>>, <<3751, 3760>>,
    <<3762, 3762>>, <<3773, 3773>>, <<3776, 3780>>, <<3782, 3782>>, <<3804, 3807>>, <<3840, 3840>>,
    <<3904, 3911>>, <<3913, 3948>>, <<3976, 3980>>, <<4096, 4138>>, <<4159, 4159>>, <<4176, 4181>>,
    <<4186, 4189>>, <<4193, 4193>>, <<4197, 4198>>, <<4206, 4208>>, <<4213, 4225>>, <<4238, 4238>>,
    <<4256, 4293>>, <<4295, 4295>>, <<4301, 4301>>, <<4304, 4346>>, <<4348, 4680>>, <<4682, 4685>>,
    <<4688, 4694>>, <<4696, 4696>>, <<4698, 4701>>, <<4704, 4744>>, <<4746, 4749>>, <<4752, 4784>>,
    <<4786, 4789>>, <<4792, 4798>>, <<4800, 4800>>, <<4802, 4805>>, <<4808, 4822>>, <<4824, 4880>>,
    <<4882, 4885>>, <<4888, 4954>>, <<4992, 5007>>, <<5024, 5109>>, <<5112, 5117>>, <<5121, 5740>>,
    <<5743, 5759>>, <<5761, 5786>>, <<5792, 5866>>, <<5870, 5880>>, <<5888, 5905>>, <<5919, 5937>>,
    <<5952, 5969>>, <<5984, 5996>>, <<5998, 6000>>, <<6016, 6067>>, <<6103, 6103>>, <<6108, 6108>>,
    <<6176, 6264>>, <<6272, 6312>>, <<6314, 6314>>, <<6320, 6389>>, <<6400, 6430>>, <<6480, 6509>>,
    <<6512, 6516>>, <<6528, 6571>>, <<6576, 6601>>, <<6656, 6678>>, <<6688, 6740>>, <<6823, 6823>>,
    <<6917, 6963>>, <<6981, 6988>>, <<7043, 7072>>, <<7086, 7087>>, <<7098, 7141>>, <<7168, 7203>>,
    <<7245, 7247>>, <<7258, 7293>>, <<7296, 7304>>, <<7312, 7354>>, <<7357, 7359>>, <<7401, 7404>>,
    <<7406, 7411>>, <<7413, 7414>>, <<7418, 7418>>, <<7424, 7615>>, <<7680, 7957>>, <<7960, 7965>>,
    <<7968, 8005>>, <<8008, 8013>>, <<8016, 8023>>, <<8025, 8025>>, <<8027, 8027>>, <<8029, 8029>>,
    <<8031, 8061>>, <<8064, 8116>>, <<8118, 8124>>, <<8126, 8126>>, <<8130, 8132>>, <<8134, 8140>>,
    <<8144, 8147>>, <<8150, 8155>>, <<8160, 8172>>, <<8178, 8180>>, <<8182, 8188>>, <<8305, 8305>>,
    <<8319, 8319>>, <<8336, 8348>>, <<8450, 8450>>, <<8455, 8455>>, <<8458, 8467>>, <<8469, 8469>>,
    <<8472, 8477>>, <<8484, 8484>>, <<8486, 8486>>, <<8488, 8488>>, <<8490, 8505>>, <<8508, 8511>>,
    <<8517, 8521>>, <<8526, 8526>>, <<8544, 8584>>, <<11264, 11492>>, <<11499, 11502>>, <<11506, 11507>>,
    <<11520, 11557>>, <<11559, 11559>>, <<11565, 11565>>, <<11568, 11623>>, <<11631, 11631>>, <<11648, 11670>>,
    <<11680, 11686>>, <<11688, 11694>>, <<11696, 11702>>, <<11704, 11710>>, <<11712, 11718>>, <<11720, 11726>>,
    <<11728, 11734>>, <<11736, 11742>>, <<12293, 12295>>, <<12321, 12329>>, <<12337, 12341>>, <<12344, 12348>>,
    <<12353, 12438>>, <<12445, 12447>>, <<12449, 12538>>, <<12540, 12543>>, <<12549, 12591>>, <<12593, 12686>>,
    <<12704, 12735>>, <<12784, 12799>>, <<13312, 19903>>, <<19968, 42124>>, <<42192, 42237>>, <<42240, 42508>>,
    <<42512, 42527>>, <<42538, 42539>>, <<42560, 42606>>, <<42623, 42653>>, <<42656, 42735>>, <<42775, 42783>>,
    <<42786, 42888>>, <<42891, 42954>>, <<42960, 42961>>, <<42963, 42963>>, <<42965, 42969>>, <<42994, 43009>>,
    <<43011, 43013>>, <<43015, 43018>>, <<43020, 43042>>, <<43072, 43123>>, <<43138, 43187>>, <<43250, 43255>>,
    <<43259, 43259>>, <<43261, 43262>>, <<43274, 43301>>, <<43312, 43334>>, <<43360, 43388>>, <<43396, 43442>>,
    <<43471, 43471>>, <<43488, 43492>>, <<43494, 43503>>, <<43514, 43518>>, <<43520, 43560>>, <<43584, 43586>>,
    <<43588, 43595>>, <<43616, 43638>>, <<43642, 43642>>, <<43646, 43695>>, <<43697, 43697>>, <<43701, 43702>>,
    <<43705, 43709>>, <<43712, 43712>>, <<43714, 43714>>, <<43739, 43741>>, <<43744, 43754>>, <<43762, 43764>>,
    <<43777, 43782>>, <<43785, 43790>>, <<43793, 43798>>, <<43808, 43814>>, <<43816, 43822>>, <<43824, 43866>>,
    <<43868, 43881>>, <<43888, 44002>>, <<44032, 55203>>, <<55216, 55238>>, <<55243, 55291>>, <<63744, 64109>>,
    <<64112, 64217>>, <<64256, 64262>>, <<64275, 64279>>, <<64285, 64285>>, <<64287, 64296>>, <<64298, 64310>>,
    <<64312, 64316>>, <<64318, 64318>>, <<64320, 64321>>, <<64323, 64324>>, <<64326, 64433>>, <<64467, 64605>>,
    <<64612, 64829>>, <<64848, 64911>>, <<64914, 64967>>, <<65008, 65017>>, <<65137, 65137>>, <<65139, 65139>>,
    <<65143, 65143>>, <<65145, 65145>>, <<65147, 65147>>, <<65149, 65149>>, <<65151, 65276>>, <<65313, 65338>>,
    <<65345, 65370>>, <<65382, 65437>>, <<65440, 65470>>, <<65474, 65479>>, <<65482, 65487>>, <<65490, 65495>>,
    <<65498, 65500>>, <<65536, 65547>>, <<65549, 65574>>, <<65576, 65594>>, <<65596, 65597>>, <<65599, 65613>>,
    <<65616, 65629>>, <<65664, 65786>>, <<65856, 65908>>, <<66176, 66204>>, <<66208, 66256>>, <<66304, 66335>>,
    <<66349, 66378>>, <<66384, 66421>>, <<66432, 66461>>, <<66464, 66499>>, <<66504, 66511>>, <<66513, 66517>>,
    <<66560, 66717>>, <<66736, 66771>>, <<66776, 66811>>, <<66816, 66855>>, <<66864, 66915>>, <<66928, 66938>>,
    <<66940, 66954>>, <<66956, 66962>>, <<66964, 66965>>, <<66967, 66977>>, <<66979, 66993>>, <<66995, 67001>>,
    <<67003, 67004>>, <<67072, 67382>>, <<67392, 67413>>, <<67424, 67431>>, <<67456, 67461>>, <<67463, 67504>>,
    <<67506, 67514>>, <<67584, 67589>>, <<67592, 67592>>, <<67594, 67637>>, <<67639, 67640>>, <<67644, 67644>>,
    <<67647, 67669>>, <<67680, 67702>>, <<67712, 67742>>, <<67808, 67826>>, <<67828, 67829>>, <<67840, 67861>>,
    <<67872, 67897>>, <<67968, 68023>>, <<68030, 68031>>, <<68096, 68096>>, <<68112, 68115>>, <<68117, 68119>>,
    <<68121, 68149>>, <<68192, 68220>>, <<68224, 68252>>, <<68288, 68295>>, <<68297, 68324>>, <<68352, 68405>>,
    <<68416, 68437>>, <<68448, 68466>>, <<68480, 68497>>, <<68608, 68680>>, <<68736, 68786>>, <<68800, 68850>>,
    <<68864, 68899>>, <<69248, 69289>>, <<69296, 69297>>, <<69376, 69404>>, <<69415, 69415>>, <<69424, 69445>>,
    <<69488, 69505>>, <<69552, 69572>>, <<69600, 69622>>, <<69635, 69687>>, <<69745, 69746>>, <<69749, 69749>>,
    <<69763, 69807>>, <<69840, 69864>>, <<69891, 69926>>, <<69956, 69956>>, <<69959, 69959>>, <<69968, 70002>>,
    <<70006, 70006>>, <<70019, 70066>>, <<70081, 70084>>, <<70106, 70106>>, <<70108, 70108>>, <<70144, 70161>>,
    <<70163, 70187>>, <<70272, 70278>>, <<70280, 70280>>, <<70282, 70285>>, <<70287, 70301>>, <<70303, 70312>>,
    <<70320, 70366>>, <<70405, 70412>>, <<70415, 70416>>, <<70419, 70440>>, <<70442, 70448>>, <<70450, 70451>>,
    <<70453, 70457>>, <<70461, 70461>>, <<70480, 70480>>, <<70493, 70497>>, <<70656, 70708>>, <<70727, 70730>>,
    <<70751, 70753>>, <<70784, 70831>>, <<70852, 70853>>, <<70855, 70855>>, <<71040, 71086>>, <<71128, 71131>>,
    <<71168, 71215>>, <<71236, 71236>>, <<71296, 71338>>, <<71352, 71352>>, <<71424, 71450>>, <<71488, 71494>>,
    <<71680, 71723>>, <<71840, 71903>>, <<71935, 71942>>, <<71945, 71945>>, <<71948, 71955>>, <<71957, 71958>>,
    <<71960, 71983>>, <<71999, 71999>>, <<72001, 72001>>, <<72096, 72103>>, <<72106, 72144>>, <<72161, 72161>>,
    <<72163, 72163>>, <<72192, 72192>>, <<72203, 72242>>, <<72250, 72250>>, <<72272, 72272>>, <<72284, 72329>>,
    <<72349, 72349>>, <<72368, 72440>>, <<72704, 72712>>, <<72714, 72750>>, <<72768, 72768>>, <<72818, 72847>>,
    <<72960, 72966>>, <<72968, 72969>>, <<72971, 73008>>, <<73030, 73030>>, <<73056, 73061>>, <<73063, 73064>>,
    <<73066, 73097>>, <<73112, 73112>>, <<73440, 73458>>, <<73648, 73648>>, <<73728, 74649>>, <<74752, 74862>>,
    <<74880, 75075>>, <<77712, 77808>>, <<77824, 78894>>, <<82944, 83526>>, <<92160, 92728>>, <<92736, 92766>>,
    <<92784, 92862>>, <<92880, 92909>>, <<92928, 92975>>, <<92992, 92995>>, <<93027, 93047>>, <<93053, 93071>>,
    <<93760, 93823>>, <<93952, 94026>>, <<94032, 94032>>, <<94099, 94111>>, <<94176, 94177>>, <<94179, 94179>>,
    <<94208, 100343>>, <<100352, 101589>>, <<101632, 101640>>, <<110576, 110579>>, <<110581, 110587>>, <<110589, 110590>>,
    <<110592, 110882>>, <<110928, 110930>>, <<110948, 110951>>, <<110960, 111355>>, <<113664, 113770>>, <<113776, 113788>>,
    <<113792, 113800>>, <<113808, 113817>>, <<119808, 119892>>, <<119894, 119964>>, <<119966, 119967>>, <<119970, 119970>>,
    <<119973, 119974>>, <<119977, 119980>>, <<119982, 119993>>, <<119995, 119995>>, <<119997, 120003>>, <<120005, 120069>>,
    <<120071, 120074>>, <<120077, 120084>>, <<120086, 120092>>, <<120094, 120121>>, <<120123, 120126>>, <<120128, 120132>>,
    <<120134, 120134>>, <<120138, 120144>>, <<120146, 120485>>, <<120488, 120512>>, <<120514, 120538>>, <<120540, 120570>>,
    <<120572, 120596>>, <<120598, 120628>>, <<120630, 120654>>, <<120656, 120686>>, <<120688, 120712>>, <<120714, 120744>>,
    <<120746, 120770>>, <<120772, 120779>>, <<122624, 122654>>, <<123136, 123180>>, <<123191, 123197>>, <<123214, 123214>>,
    <<123536, 123565>>, <<123584, 123627>>, <<124896, 124902>>, <<124904, 124907>>, <<124909, 124910>>, <<124912, 124926>>,
    <<124928, 125124>>, <<125184, 125251>>, <<125259, 125259>>, <<126464, 126467>>, <<126469, 126495>>, <<126497, 126498>>,
    <<126500, 126500>>, <<126503, 126503>>, <<126505, 126514>>, <<126516, 126519>>, <<126521, 126521>>, <<126523, 126523>>,
    <<126530, 126530>>, <<126535, 126535>>, <<126537, 126537>>, <<126539, 126539>>, <<126541, 126543>>, <<126545, 126546>>,
    <<126548, 126548>>, <<126551, 126551>>, <<126553, 126553>>, <<126555, 126555>>, <<126557, 126557>>, <<126559, 126559>>,
    <<126561, 126562>>, <<126564, 126564>>, <<126567, 126570>>, <<126572, 126578>>, <<126580, 126583>>, <<126585, 126588>>,
    <<126590, 126590>>, <<126592, 126601>>, <<126603, 126619>>, <<126625, 126627>>, <<126629, 126633>>, <<126635, 126651>>,
    <<131072, 173791>>, <<173824, 177976>>, <<177984, 178205>>, <<178208, 183969>>, <<183984, 191456>>, <<194560, 195101>>,
    <<196608, 201546>>>>

\* the further codes a Python identifier may continue with
XidContinueOnlyRanges ==
  <<<<48, 57>>, <<183, 183>>, <<768, 879>>, <<903, 903>>, <<1155, 1159>>, <<1425, 1469>>,
    <<1471, 1471>>, <<1473, 1474>>, <<1476, 1477>>, <<1479, 1479>>, <<1552, 1562>>, <<1611, 1641>>,
    <<1648, 1648>>, <<1750, 1756>>, <<1759, 1764>>, <<1767, 1768>>, <<1770, 1773>>, <<1776, 1785>>,
    <<1809, 1809>>, <<1840, 1866>>, <<1958, 1968>>, <<1984, 1993>>, <<2027, 2035>>, <<2045, 2045>>,
    <<2070, 2073>>, <<2075, 2083>>, <<2085, 2087>>, <<2089, 2093>>, <<2137, 2139>>, <<2200, 2207>>,
    <<2250, 2273>>, <<2275, 2307>>, <<2362, 2364>>, <<2366, 2383>>, <<2385, 2391>>, <<2402, 2403>>,
    <<2406, 2415>>, <<2433, 2435>>, <<2492, 2492>>, <<2494, 2500>>, <<2503, 2504>>, <<2507, 2509>>,
    <<2519, 2519>>, <<2530, 2531>>, <<2534, 2543>>, <<2558, 2558>>, <<2561, 2563>>, <<2620, 2620>>,
    <<2622, 2626>>, <<2631, 2632>>, <<2635, 2637>>, <<2641, 2641>>, <<2662, 2673>>, <<2677, 2677>>,
    <<2689, 2691>>, <<2748, 2748>>, <<2750, 2757>>, <<2759, 2761>>, <<2763, 2765>>, <<2786, 2787>>,
    <<2790, 2799>>, <<2810, 2815>>, <<2817, 2819>>, <<2876, 2876>>, <<2878, 2884>>, <<2887, 2888>>,
    <<2891, 2893>>, <<2901, 2903>>, <<2914, 2915>>, <<2918, 2927>>, <<2946, 2946>>, <<3006, 3010>>,
    <<3014, 3016>>, <<3018, 3021>>, <<3031, 3031>>, <<3046, 3055>>, <<3072, 3076>>, <<3132, 3132>>,
    <<3134, 3140>>, <<3142, 3144>>, <<3146, 3149>>, <<3157, 3158>>, <<3170, 3171>>, <<3174, 3183>>,
    <<3201, 3203>>, <<3260, 3260>>, <<3262, 3268>>, <<3270, 3272>>, <<3274, 3277>>, <<3285, 3286>>,
    <<3298, 3299>>, <<3302, 3311>>, <<3328, 3331>>, <<3387, 3388>>, <<3390, 3396>>, <<3398, 3400>>,
    <<3402, 3405>>, <<3415, 3415>>, <<3426, 3427>>, <<3430, 3439>>, <<3457, 3459>>, <<3530, 3530>>,
    <<3535, 3540>>, <<3542, 3542>>, <<3544, 3551>>, <<3558, 3567>>, <<3570, 3571>>, <<3633, 3633>>,
    <<3635, 3642>>, <<3655, 3662>>, <<3664, 3673>>, <<3761, 3761>>, <<3763, 3772>>, <<3784, 3789>>,
    <<3792, 3801>>, <<3864, 3865>>, <<3872, 3881>>, <<3893, 3893>>, <<3895, 3895>>, <<3897, 3897>>,
    <<3902, 3903>>, <<3953, 3972>>, <<3974, 3975>>, <<3981, 3991>>, <<3993, 4028>>, <<4038, 4038>>,
    <<4139, 4158>>, <<4160, 4169>>, <<4182, 4185>>, <<4190, 4192>>, <<4194, 4196>>, <<4199, 4205>>,
    <<4209, 4212>>, <<4226, 4237>>, <<4239, 4253>>, <<4957, 4959>>, <<4969, 4977>>, <<5906, 5909>>,
    <<5938, 5940>>, <<5970, 5971>>, <<6002, 6003>>, <<6068, 6099>>, <<6109, 6109>>, <<6112, 6121>>,
    <<6155, 6157>>, <<6159, 6169>>, <<6313, 6313>>, <<6432, 6443>>, <<6448, 6459>>, <<6470, 6479>>,
    <<6608, 6618>>, <<6679, 6683>>, <<6741, 6750>>, <<6752, 6780>>, <<6783, 6793>>, <<6800, 6809>>,
    <<6832, 6845>>, <<6847, 6862>>, <<6912, 6916>>, <<6964, 6980>>, <<6992, 7001>>, <<7019, 7027>>,
    <<7040, 7042>>, <<7073, 7085>>, <<7088, 7097>>, <<7142, 7155>>, <<7204, 7223>>, <<7232, 7241>>,
    <<7248, 7257>>, <<7376, 7378>>, <<7380, 7400>>, <<7405, 7405>>, <<7412, 7412>>, <<7415, 7417>>,
    <<7616, 7679>>, <<8255, 8256>>, <<8276, 8276>>, <<8400, 8412>>, <<8417, 8417>>, <<8421, 8432>>,
    <<11503, 11505>>, <<11647, 11647>>, <<11744, 11775>>, <<12330, 12335>>, <<12441, 12442>>, <<42528, 42537>>,
    <<42607, 42607>>, <<42612, 42621>>, <<42654, 42655>>, <<42736, 42737>>, <<43010, 43010>>, <<43014, 43014>>,
    <<43019, 43019>>, <<43043, 43047>>, <<43052, 43052>>, <<43136, 43137>>, <<43188, 43205>>, <<43216, 43225>>,
    <<43232, 43249>>, <<43263, 43273>>, <<43302, 43309>>, <<43335, 43347>>, <<43392, 43395>>, <<43443, 43456>>,
    <<43472, 43481>>, <<43493, 43493>>, <<43504, 43513>>, <<43561, 43574>>, <<43587, 43587>>, <<43596, 43597>>,
    <<43600, 43609>>, <<43643, 43645>>, <<43696, 43696>>, <<43698, 43700>>, <<43703, 43704>>, <<43710, 43711>>,
    <<43713, 43713>>, <<43755, 43759>>, <<43765, 43766>>, <<44003, 44010>>, <<44012, 44013>>, <<44016, 44025>>,
    <<64286, 64286>>, <<65024, 65039>>, <<65056, 65071>>, <<65075, 65076>>, <<65101, 65103>>, <<65296, 65305>>,
    <<65343, 65343>>, <<65438, 65439>>, <<66045, 66045>>, <<66272, 66272>>, <<66422, 66426>>, <<66720, 66729>>,
    <<68097, 68099>>, <<68101, 68102>>, <<68108, 68111>>, <<68152, 68154>>, <<68159, 68159>>, <<68325, 68326>>,
    <<68900, 68903>>, <<68912, 68921>>, <<69291, 69292>>, <<69446, 69456>>, <<69506, 69509>>, <<69632, 69634>>,
    <<69688, 69702>>, <<69734, 69744>>, <<69747, 69748>>, <<69759, 69762>>, <<69808, 69818>>, <<69826, 69826>>,
    <<69872, 69881>>, <<69888, 69890>>, <<69927, 69940>>, <<69942, 69951>>, <<69957, 69958>>, <<70003, 70003>>,
    <<70016, 70018>>, <<70067, 70080>>, <<70089, 70092>>, <<70094, 70105>>, <<70188, 70199>>, <<70206, 70206>>,
    <<70367, 70378>>, <<70384, 70393>>, <<70400, 70403>>, <<70459, 70460>>, <<70462, 70468>>, <<70471, 70472>>,
    <<70475, 70477>>, <<70487, 70487>>, <<70498, 70499>>, <<70502, 70508>>, <<70512, 70516>>, <<70709, 70726>>,
    <<70736, 70745>>, <<70750, 70750>>, <<70832, 70851>>, <<70864, 70873>>, <<71087, 71093>>, <<71096, 71104>>,
    <<71132, 71133>>, <<71216, 71232>>, <<71248, 71257>>, <<71339, 71351>>, <<71360, 71369>>, <<71453, 71467>>,
    <<71472, 71481>>, <<71724, 71738>>, <<71904, 71913>>, <<71984, 71989>>, <<71991, 71992>>, <<71995, 71998>>,
    <<72000, 72000>>, <<72002, 72003>>, <<72016, 72025>>, <<72145, 72151>>, <<72154, 72160>>, <<72164, 72164>>,
    <<72193, 72202>>, <<72243, 72249>>, <<72251, 72254>>, <<72263, 72263>>, <<72273, 72283>>, <<72330, 72345>>,
    <<72751, 72758>>, <<72760, 72767>>, <<72784, 72793>>, <<72850, 72871>>, <<72873, 72886>>, <<73009, 73014>>,
    <<73018, 73018>>, <<73020, 73021>>, <<73023, 73029>>, <<73031, 73031>>, <<73040, 73049>>, <<73098, 73102>>,
    <<73104, 73105>>, <<73107, 73111>>, <<73120, 73129>>, <<73459, 73462>>, <<92768, 92777>>, <<92864, 92873>>,
    <<92912, 92916>>, <<92976, 92982>>, <<93008, 93017>>, <<94031, 94031>>, <<94033, 94087>>, <<94095, 94098>>,
    <<94180, 94180>>, <<94192, 94193>>, <<113821, 113822>>, <<118528, 118573>>, <<118576, 118598>>, <<119141, 119145>>,
    <<119149, 119154>>, <<119163, 119170>>, <<119173, 119179>>, <<119210, 119213>>, <<119362, 119364>>, <<120782, 120831>>,
    <<121344, 121398>>, <<121403, 121452>>, <<121461, 121461>>, <<121476, 121476>>, <<121499, 121503>>, <<121505, 121519>>,
    <<122880, 122886>>, <<122888, 122904>>, <<122907, 122913>>, <<122915, 122916>>, <<122918, 122922>>, <<123184, 123190>>,
    <<123200, 123209>>, <<123566, 123566>>, <<123628, 123641>>, <<125136, 125142>>, <<125252, 125258>>, <<125264, 125273>>,
    <<130032, 130041>>, <<917760, 917999>>>>

\* string.ascii_letters
AsciiLetters == {Chr(n) : n \in (65..90) \cup (97..122)}

\* whether a Python identifier may start with, and continue with, the
\* character
IsXidStart(c) == c = "_" \/ InRanges(Ord(c), XidStartRanges)
IsXidContinue(c) == IsXidStart(c) \/ InRanges(Ord(c), XidContinueOnlyRanges)

\* the characters of the two keys, one token each
IKChars == <<"_", "_", "v", "e", "r", "s", "i", "o", "n", "_", "_", " ", "=", " ">>
SKChars == <<"v", "e", "r", "s", "i", "o", "n", "=">>

\* ------------------------------------------------------------------ bounds
MaxPart == 2
MaxHistory == 2
MaxCommits == 3
MaxRuns == 2

\* --------------------------------------------------- sequence helpers
RECURSIVE Concat(_)
Concat(ss) == IF ss = <<>> THEN <<>> ELSE Head(ss) \o Concat(Tail(ss))

\* `needle in hay` for Python strings
Contains(hay, needle) ==
  \E i \in 0..(Len(hay) - Len(needle)) :
     SubSeq(hay, i + 1, i + Len(needle)) = needle

\* ----------------------------------------------------- regular expressions
\* The three patterns of the script have one shape: a key, an opening quote,
\* one or more characters that are not a quote of the class, a closing quote
\* and a fixed tail.  `closers` is both the negated class and the set of the
\* closing quotes, so the greedy run ends at the first closer and no
\* backtracking can find another match.
InitPattern == [key |-> IK, openers |-> {DQ, SQ}, closers |-> {DQ, SQ}, tail |-> <<>>]
SetupReadPattern == [key |-> SK, openers |-> {DQ}, closers |-> {DQ}, tail |-> <<>>]
SetupWritePattern == [key |-> SK, openers |-> {DQ}, closers |-> {DQ}, tail |-> <<CM>>]

\* first index >= i of a closer in s, Len(s)+1 when there is none
RunEnd(s, i, closers) ==
  IF i > Len(s) THEN Len(s) + 1
  ELSE CHOOSE j \in i..(Len(s) + 1) :
         /\ j = Len(s) + 1 \/ s[j] \in closers
         /\ \A k \in i..(j - 1) : s[k] \notin closers

\* index of the closing quote of the match of pat that starts at i, 0 if none
CloseAt(s, i, pat) ==
  IF i + 3 <= Len(s) /\ s[i] = pat.key /\ s[i + 1] \in pat.openers
       /\ s[i + 2] \notin pat.closers
  THEN LET j == RunEnd(s, i + 2, pat.closers)
       IN IF j <= Len(s)
               /\ j + Len(pat.tail) <= Len(s)
               /\ SubSeq(s, j + 1, j + Len(pat.tail)) = pat.tail
          THEN j ELSE 0
  ELSE 0

\* re.search: start of the leftmost match, 0 if none
RECURSIVE SearchFrom(_, _, _)
SearchFrom(s, i, pat) ==
  IF i > Len(s) THEN 0
  ELSE IF CloseAt(s, i, pat) > 0 THEN i
  ELSE SearchFrom(s, i + 1, pat)

Search(s, pat) == SearchFrom(s, 1, pat)

\* match.group(1) of the match that starts at i
Group1(s, i, pat) == SubSeq(s, i + 2, CloseAt(s, i, pat) - 1)

\* what \g<0> of a replacement template expands to: the place of the whole
\* match
WholeMatch == "\\g<0>"

\* the replacement for the match m: every \g<0> becomes m
RECURSIVE Fill(_, _)
Fill(repl, m) ==
  IF repl = <<>> THEN <<>>
  ELSE (IF Head(repl) = WholeMatch THEN m ELSE <<Head(repl)>>) \o Fill(Tail(repl), m)

\* re.sub with an already expanded replacement: every non-overlapping match,
\* left to right, is replaced
RECURSIVE SubFrom(_, _, _, _)
SubFrom(s, i, pat, repl) ==
  IF i > Len(s) THEN <<>>
  ELSE IF CloseAt(s, i, pat) > 0
       THEN LET after == CloseAt(s, i, pat) + Len(pat.tail) + 1
            IN Fill(repl, SubSeq(s, i, after - 1)) \o SubFrom(s, after, pat, repl)
       ELSE <<s[i]>> \o SubFrom(s, i + 1, pat, repl)

\* a text with the characters of a key spelled one by one made one token
RECURSIVE Retokenise(_)
Retokenise(s) ==
  IF s = <<>> THEN <<>>
  ELSE IF Len(s) >= Len(IKChars) /\ SubSeq(s, 1, Len(IKChars)) = IKChars
       THEN <<IK>> \o Retokenise(SubSeq(s, Len(IKChars) + 1, Len(s)))
  ELSE IF Len(s) >= Len(SKChars) /\ SubSeq(s, 1, Len(SKChars)) = SKChars
       THEN <<SK>> \o Retokenise(SubSeq(s, Len(SKChars) + 1, Len(s)))
  ELSE <<Head(s)>> \o Retokenise(Tail(s))

\* Path.read_text: a carriage return, with the newline after it if there is
\* one, is read as a newline
RECURSIVE ReadText(_)
ReadText(s) ==
  IF s = <<>> THEN <<>>
  ELSE IF Head(s) = CR
       THEN <<NL>> \o ReadText(IF Len(s) > 1 /\ s[2] = NL THEN SubSeq(s, 3, Len(s))
                                ELSE Tail(s))
  ELSE <<Head(s)>> \o ReadText(Tail(s))

\* ------------------------------------------------------------ Python text
\* str.isspace() of one character: the characters str.strip() removes
IsSpace(c) == InRanges(Ord(c), SpaceRanges)

\* the characters int() removes: the whitespace but the separators of codes
\* 28 to 31
IsIntSpace(c) == IsSpace(c) /\ Ord(c) \notin 28..31

\* whether a strip removes c: that of int() if forInt, str.strip() if not
Stripped(c, forInt) == IF forInt THEN IsIntSpace(c) ELSE IsSpace(c)

\* s without the characters a strip removes at its left end
LStrip(s, forInt) ==
  LET first == CHOOSE j \in 1..(Len(s) + 1) :
                 /\ j = Len(s) + 1 \/ ~Stripped(s[j], forInt)
                 /\ \A k \in 1..(j - 1) : Stripped(s[k], forInt)
  IN SubSeq(s, first, Len(s))

\* s without the characters a strip removes at its right end
RStrip(s, forInt) ==
  LET last == CHOOSE j \in 0..Len(s) :
                /\ j = 0 \/ ~Stripped(s[j], forInt)
                /\ \A k \in (j + 1)..Len(s) : Stripped(s[k], forInt)
  IN SubSeq(s, 1, last)

\* str.strip()
Strip(s) == RStrip(LStrip(s, FALSE), FALSE)

\* str.split(sep) for a one-character separator: always at least one part
RECURSIVE Split(_, _)
Split(s, sep) ==
  LET j == RunEnd(s, 1, {sep})
  IN IF j > Len(s) THEN <<s>>
     ELSE <<SubSeq(s, 1, j - 1)>> \o Split(SubSeq(s, j + 1, Len(s)), sep)


\* the digits and underscores of the literal int() reads: the text without
\* the surrounding whitespace and the sign
IntBody(t) ==
  LET Unsigned(u) == IF u # <<>> /\ Head(u) \in {"+", "-"} THEN Tail(u) ELSE u
  IN Unsigned(RStrip(LStrip(t, TRUE), TRUE))

IntNegative(t) ==
  LET Negative(u) == u # <<>> /\ Head(u) = "-"
  IN Negative(LStrip(t, TRUE))

\* sys.int_max_str_digits of Python 3.11: the most digits int() reads and
\* str() writes; both raise ValueError beyond it
MaxStrDigits == 4300

NotUnderscore(c) == c # "_"

\* the digits of the literal int() reads
IntDigits(t) == SelectSeq(IntBody(t), NotUnderscore)

\* int(text) accepts surrounding whitespace, a sign, and then needs digits,
\* with single underscores allowed between two digits, and no more than
\* MaxStrDigits digits
IntOk(t) ==
  LET Literal(v) ==
        /\ v # <<>>
        /\ \A i \in 1..Len(v) : v[i] = "_" \/ IsDecimal(v[i])
        /\ v[1] # "_" /\ v[Len(v)] # "_"
        /\ \A i \in 1..(Len(v) - 1) : ~(v[i] = "_" /\ v[i + 1] = "_")
        /\ Len(SelectSeq(v, NotUnderscore)) <= MaxStrDigits
  IN Literal(IntBody(t))

\* An integer of the script is its numeral, the text str() gives of it:
\* ASCII digits with no leading zero, after "-" if it is negative.  The
\* integers of Python have no width, and neither have these.

\* the digits ds without their leading zeros
Canonical(ds) ==
  LET first == CHOOSE j \in 1..Len(ds) :
                 /\ j = Len(ds) \/ ds[j] # "0"
                 /\ \A k \in 1..(j - 1) : ds[k] = "0"
  IN SubSeq(ds, first, Len(ds))

\* the digits of a numeral, without the sign
Magnitude(n) == IF Head(n) = "-" THEN Tail(n) ELSE n

\* the numeral of minus the natural number of numeral m
Minus(m) == IF m = <<"0">> THEN m ELSE <<"-">> \o m

\* int(t) of a text IntOk is true of
ParseInt(t) ==
  LET Value(ds) == Canonical([i \in 1..Len(ds) |-> Digits[DigitValue(ds[i]) + 1]])
      Signed(m) == IF IntNegative(t) THEN Minus(m) ELSE m
  IN Signed(Value(IntDigits(t)))

\* m + 1 for the numeral m of a natural number
Increment(m) ==
  LET last == CHOOSE j \in 0..Len(m) :
                /\ j = 0 \/ m[j] # "9"
                /\ \A k \in (j + 1)..Len(m) : m[k] = "9"
  IN IF last = 0 THEN <<"1">> \o [i \in 1..Len(m) |-> "0"]
     ELSE [i \in 1..Len(m) |->
             IF i < last THEN m[i]
             ELSE IF i = last THEN Digits[AsciiDigitValue(m[i]) + 2]
             ELSE "0"]

\* m - 1 for the numeral m of a positive number
Decrement(m) ==
  LET last == CHOOSE j \in 1..Len(m) :
                /\ m[j] # "0"
                /\ \A k \in (j + 1)..Len(m) : m[k] = "0"
  IN Canonical([i \in 1..Len(m) |->
                  IF i < last THEN m[i]
                  ELSE IF i = last THEN Digits[AsciiDigitValue(m[i])]
                  ELSE "9"])

\* n + 1
PlusOne(n) == IF Head(n) = "-" THEN Minus(Decrement(Tail(n))) ELSE Increment(n)

\* whether str(n) is refused: n has more than MaxStrDigits digits
StrRefused(n) == Len(Magnitude(n)) > MaxStrDigits

\* the numeral of a natural number n, for the small numbers the versions of
\* the manifests and of the calls are built from
RECURSIVE Numeral(_)
Numeral(n) ==
  IF n < 10 THEN <<Digits[n + 1]>>
  ELSE Numeral(n \div 10) \o <<Digits[(n % 10) + 1]>>

\* ------------------------------------------------------ re.sub templates
\* The replacement argument of re.sub is a template, read left to right; a
\* backslash starts an escape together with the character after it.
\*   - a backslash that ends the template is an error;
\*   - \a \b \f \n \r \t \v stand for the characters of codes 7, 8, 12, 10,
\*     13, 9 and 11, and \\ for a backslash;
\*   - \0 with up to two octal digits after it is the character of that
\*     octal code;
\*   - \d with d in 1-7 and two more octal digits is the character of that
\*     octal code, an error above 0o377;
\*   - any other \d or \dd is a reference to a group of that number, which
\*     the patterns of the script do not have: an error;
\*   - \g<name> is a reference to a group: an IndexError for an identifier
\*     (the patterns name no group), the whole match for a name int() reads
\*     as 0, an error for anything else, for a missing "<" or ">" and for an
\*     empty name;
\*   - a backslash before any other ASCII letter is an error;
\*   - a backslash before anything else stays as it is.
\* err is "" for a template that is accepted and the class of the exception
\* else; the first offence from the left decides.  The group names are
\* read as by Python 3.11 (later versions take ASCII digits only).

\* index of the ">" that ends the group name starting at t[i], 0 if there is
\* none; a backslash and the character after it are one item of the name
NameEnd(t, i) ==
  LET Escaped(j) ==
        LET run == CHOOSE n \in 0..(j - i) :
                     /\ \A k \in (j - n)..(j - 1) : t[k] = BS
                     /\ n = j - i \/ t[j - n - 1] # BS
        IN run % 2 = 1
      ends == {j \in i..Len(t) : t[j] = ">" /\ ~Escaped(j)}
  IN IF ends = {} THEN 0 ELSE CHOOSE j \in ends : \A k \in ends : j <= k

\* str.isidentifier()
IsIdentifier(name) ==
  /\ name # <<>>
  /\ IsXidStart(name[1])
  /\ \A i \in 1..Len(name) : IsXidContinue(name[i])

\* the value of the octal digits ds
RECURSIVE OctalValue(_)
OctalValue(ds) ==
  IF ds = <<>> THEN 0
  ELSE 8 * OctalValue(SubSeq(ds, 1, Len(ds) - 1)) + DigitValue(ds[Len(ds)])

\* the longest run of at most n octal digits that t starts with
RECURSIVE OctalRun(_, _)
OctalRun(t, n) ==
  IF n = 0 \/ t = <<>> \/ Head(t) \notin OctDigitSet THEN <<>>
  ELSE <<Head(t)>> \o OctalRun(Tail(t), n - 1)

\* the letter escapes of a template
LetterEscapes ==
  [c \in {"a", "b", "f", "n", "r", "t", "v"} |->
     CASE c = "a" -> Chr(7) [] c = "b" -> Chr(8) [] c = "f" -> Chr(12)
       [] c = "n" -> Chr(10) [] c = "r" -> Chr(13) [] c = "t" -> Chr(9)
       [] c = "v" -> Chr(11)]

RECURSIVE ExpandTemplate(_)
\* the expansion of t after the literal text pre
After(pre, t) ==
  LET Prefixed(r) == [err |-> r.err, text |-> IF r.err = "" THEN pre \o r.text ELSE <<>>]
  IN Prefixed(ExpandTemplate(t))

TemplateError(e) == [err |-> e, text |-> <<>>]

\* the expansion of \g followed by rest
GroupReference(rest) ==
  LET end == NameEnd(rest, 2)
      name == SubSeq(rest, 2, end - 1)
      after == SubSeq(rest, end + 1, Len(rest))
  IN IF rest = <<>> \/ Head(rest) # "<" THEN TemplateError("re.error")
     ELSE IF end = 0 \/ name = <<>> THEN TemplateError("re.error")
     ELSE IF after = <<BS>> THEN TemplateError("re.error")
     ELSE IF IsIdentifier(name) THEN TemplateError("IndexError")
     ELSE IF IntOk(name) /\ ParseInt(name) = <<"0">> THEN After(<<WholeMatch>>, after)
     ELSE TemplateError("re.error")

ExpandTemplate(t) ==
  IF t = <<>> THEN [err |-> "", text |-> <<>>]
  ELSE IF Head(t) # BS THEN After(<<Head(t)>>, Tail(t))
  ELSE IF Len(t) = 1 THEN TemplateError("re.error")
  ELSE LET c == t[2]
           rest == SubSeq(t, 3, Len(t))
       IN IF c = IK THEN After(<<BS, IK>>, rest)
          ELSE IF c = SK THEN After(<<Chr(11)>> \o Tail(SKChars), rest)
          ELSE IF c = BS THEN After(<<BS>>, rest)
          ELSE IF c = "g" THEN GroupReference(rest)
          ELSE IF c = "0"
          THEN LET ds == OctalRun(rest, 2)
               IN After(<<Chr(OctalValue(ds))>>, SubSeq(rest, Len(ds) + 1, Len(rest)))
          ELSE IF c \in AsciiDigitSet
          THEN IF c \in OctDigitSet /\ Len(OctalRun(rest, 2)) = 2
               THEN LET code == OctalValue(<<c>> \o SubSeq(rest, 1, 2))
                    IN IF code > 255 THEN TemplateError("re.error")
                       ELSE After(<<Chr(code)>>, SubSeq(rest, 3, Len(rest)))
               ELSE TemplateError("re.error")
          ELSE IF c \in DOMAIN LetterEscapes THEN After(<<LetterEscapes[c]>>, rest)
          ELSE IF c \in AsciiLetters THEN TemplateError("re.error")
          ELSE After(<<BS, c>>, rest)

\* re.sub(pattern, template, content)
ReSub(s, pat, template) ==
  LET Replaced(r) ==
        IF r.err = "" THEN [err |-> "", text |-> Retokenise(SubFrom(s, 1, pat, r.text))]
        ELSE [err |-> r.err, text |-> s]
  IN Replaced(ExpandTemplate(template))

\* ------------------------------------------------------------ the script
\* get_current_version on the content of __init__.py; ok = FALSE stands for
\* the ValueError
get_current_version(file) ==
  LET content == ReadText(file)
      i == Search(content, InitPattern)
  IN IF i = 0 THEN [ok |-> FALSE, version |-> <<>>]
     ELSE [ok |-> TRUE, version |-> Group1(content, i, InitPattern)]

\* get_setup_version on the content of setup.py
get_setup_version(file) ==
  LET content == ReadText(file)
      i == Search(content, SetupReadPattern)
  IN IF i = 0 THEN [ok |-> FALSE, version |-> <<>>]
     ELSE [ok |-> TRUE, version |-> Group1(content, i, SetupReadPattern)]

BumpKinds == {"major", "minor", "patch"}

\* bump_version: err is "" on a normal return and the exception's class else
bump_version(current_version, bump_type) ==
  LET texts == Split(current_version, DOT)
      Formatted(p1, p2, p3) ==
        IF StrRefused(p1) \/ StrRefused(p2) \/ StrRefused(p3)
        THEN [err |-> "ValueError", version |-> <<>>]
        ELSE [err |-> "", version |-> p1 \o <<DOT>> \o p2 \o <<DOT>> \o p3]
      Bumped(parts) ==
        Formatted(IF bump_type = "major" THEN PlusOne(parts[1]) ELSE parts[1],
                  IF bump_type = "major" THEN <<"0">>
                  ELSE IF bump_type = "minor" THEN PlusOne(parts[2]) ELSE parts[2],
                  IF bump_type = "patch" THEN PlusOne(parts[3]) ELSE <<"0">>)
  IN IF \E i \in 1..Len(texts) : ~IntOk(texts[i])
     THEN [err |-> "ValueError", version |-> <<>>]
     ELSE IF bump_type \notin BumpKinds
     THEN [err |-> "ValueError", version |-> <<>>]
     ELSE IF Len(texts) < 3
     THEN [err |-> "IndexError", version |-> <<>>]
     ELSE Bumped([i \in 1..Len(texts) |-> ParseInt(texts[i])])

\* the substitutions of update_version_files
InitTemplate(new_version) == <<IK, DQ>> \o new_version \o <<DQ>>
SetupTemplate(new_version) == <<SK, DQ>> \o new_version \o <<DQ>>
SetupCommaTemplate(new_version) == <<SK, DQ>> \o new_version \o <<DQ, CM>>

\* lines 82-87 and 92-97: the file is read and the substitution made
UpdateInit(file, new_version) ==
  ReSub(ReadText(file), InitPattern, InitTemplate(new_version))
UpdateSetup(file, new_version) ==
  ReSub(ReadText(file), SetupWritePattern, SetupCommaTemplate(new_version))

\* sync_versions with the secondary reader called outside the try block
sync_versions_no_try(init, setup) ==
  LET iv == get_current_version(init)
      sv == get_setup_version(setup)
      Updated(sub) ==
        IF sub.err # ""
        THEN [err |-> sub.err, ret |-> FALSE, setup |-> setup, wrote |-> FALSE,
              out |-> <<"mismatch">>]
        ELSE [err |-> "", ret |-> TRUE, setup |-> sub.text, wrote |-> TRUE,
              out |-> <<"mismatch", "Updated setup.py">>]
  IN IF ~iv.ok \/ ~sv.ok
     THEN [err |-> "ValueError", ret |-> FALSE, setup |-> setup, wrote |-> FALSE,
           out |-> <<>>]
     ELSE IF iv.version = sv.version
     THEN [err |-> "", ret |-> FALSE, setup |-> setup, wrote |-> FALSE,
           out |-> <<"already in sync">>]
     ELSE Updated(ReSub(ReadText(setup), SetupReadPattern, SetupTemplate(iv.version)))

\* sync_versions on the two file contents: the exception that leaves it ("" if
\* none), the return value, the content of setup.py afterwards, whether
\* setup.py was written, and the lines printed
sync_versions(init, setup) ==
  LET iv == get_current_version(init)
      sv == get_setup_version(setup)
      Updated(sub) ==
        IF sub.err # ""
        THEN [err |-> sub.err, ret |-> FALSE, setup |-> setup, wrote |-> FALSE,
              out |-> <<"mismatch">>]
        ELSE [err |-> "", ret |-> TRUE, setup |-> sub.text, wrote |-> TRUE,
              out |-> <<"mismatch", "Updated setup.py">>]
  IN IF ~iv.ok
     THEN [err |-> "ValueError", ret |-> FALSE, setup |-> setup, wrote |-> FALSE,
           out |-> <<>>]
     ELSE IF ~sv.ok
     THEN [err |-> "", ret |-> FALSE, setup |-> setup, wrote |-> FALSE,
           out |-> <<"Warning">>]
     ELSE IF iv.version = sv.version
     THEN [err |-> "", ret |-> FALSE, setup |-> setup, wrote |-> FALSE,
           out |-> <<"already in sync">>]
     ELSE Updated(ReSub(ReadText(setup), SetupReadPattern, SetupTemplate(iv.version)))

\* determine_bump_type; "None" stands for None
FeatMarks == {<<"feat", ":">>, <<"feat", "(">>}
FixMarks == {<<"fix", ":">>, <<"fix", "(">>, <<"perf", ":">>, <<"perf", "(">>}

\* determine_bump_type with the feat test ahead of the breaking test
determine_bump_type_feat_first(commits) ==
  LET has_breaking == \E i \in 1..Len(commits) : Contains(commits[i], <<"!">>)
      has_feat == \E i \in 1..Len(commits) : \E m \in FeatMarks : Contains(commits[i], m)
      has_fix_or_perf ==
        \E i \in 1..Len(commits) : \E m \in FixMarks : Contains(commits[i], m)
  IN IF has_feat THEN "minor"
     ELSE IF has_breaking THEN "major"
     ELSE IF has_fix_or_perf THEN "patch"
     ELSE "None"

determine_bump_type(commits) ==
  LET has_breaking == \E i \in 1..Len(commits) : Contains(commits[i], <<"!">>)
      has_feat == \E i \in 1..Len(commits) : \E m \in FeatMarks : Contains(commits[i], m)
      has_fix_or_perf ==
        \E i \in 1..Len(commits) : \E m \in FixMarks : Contains(commits[i], m)
  IN IF has_breaking THEN "major"
     ELSE IF has_feat THEN "minor"
     ELSE IF has_fix_or_perf THEN "patch"
     ELSE "None"

\* ------------------------------------------------------------------- git
HASH == "a1b2c3d"

\* the output of git log --oneline for the given subjects, newest first
LogOutput(subjects) ==
  Concat([i \in 1..Len(subjects) |-> <<HASH, SP>> \o subjects[i] \o <<NL>>])

\* result.stdout.strip().split('\n') if result.stdout.strip() else []
ParseLog(stdout) ==
  LET Lines(text) == IF text = <<>> THEN <<>> ELSE Split(text, NL)
  IN Lines(Strip(stdout))

\* the subjects git log <last tag>..HEAD lists: those strictly after the tag
SinceTag(hist, tag) == SubSeq(hist, 1, tag - 1)

ReleaseSubject(new_version) ==
  <<"chore", "(", "release", ")", ":", SP>> \o new_version

TagName(new_version) == <<"v">> \o new_version

\* one run of a git command and whether it succeeded
Cmd(name, ok) == [cmd |-> name, ok |-> ok]

\* get_commits_since_last_tag against a repository whose history (newest
\* first) is hist and whose latest tag sits on commit number tag (0: no tag).
\* okDescribe, okRange and okAll say whether the environment lets the three
\* commands succeed; git describe fails without a tag in any case.  cmds
\* lists the commands run.
get_commits_since_last_tag(hist, tag, okDescribe, okRange, okAll) ==
  LET described == okDescribe /\ tag > 0
      ranged == described /\ okRange
      tried == <<Cmd("describe", described)>>
                 \o (IF described THEN <<Cmd("log range", okRange)>> ELSE <<>>)
  IN IF ranged
     THEN [err |-> "", commits |-> ParseLog(LogOutput(SinceTag(hist, tag))),
           cmds |-> tried]
     ELSE IF okAll
     THEN [err |-> "", commits |-> ParseLog(LogOutput(hist)),
           cmds |-> Append(tried, Cmd("log", TRUE))]
     ELSE [err |-> "CalledProcessError", commits |-> <<>>,
           cmds |-> Append(tried, Cmd("log", FALSE))]

\* ----------------------------------------------------------------- state
VARIABLES
  initFile,        \* content of basicmicro/__init__.py
  setupFile,       \* content of setup.py
  argv,            \* sys.argv[1:]
  history,         \* subjects of the repository's commits, newest first
  tagAt,           \* number of the commit the latest tag names, 0: no tag
  tags,            \* names of the tags the run created
  staged,          \* whether the index holds a change of one of the two files
  pc,              \* position of the run in main
  was_synced, bump_type, commits, current_version, new_version,
  out,             \* what the run printed, one word per message
  exit,            \* exit status, -1 while running
  err,             \* class of the exception that ended the run, "" if none
  writes,          \* the files written, in order
  cmds,            \* the git commands run, in order
  initFile0,       \* content of __init__.py when the run started
  setupFile0,      \* content of setup.py when the run started (under SpecSync:
                   \* when the latest sync_versions call started)
  runs             \* return values of the successive calls: of sync_versions
                   \* in a run of main, of bump_version under SpecBump

vars == <<initFile, setupFile, argv, history, tagAt, tags, staged, pc, was_synced,
          bump_type, commits, current_version, new_version, out, exit, err,
          writes, cmds, initFile0, setupFile0, runs>>

\* ---------------------------------------------------------------- inputs
Ver(x, y, z) == Numeral(x) \o <<DOT>> \o Numeral(y) \o <<DOT>> \o Numeral(z)

PrimaryVersions ==
  {Ver(1, 2, 3), Ver(1, 9, 9), <<"1", DOT, "2">>, <<"1", BS, "n">>,
   <<Chr(1635), DOT, "0", DOT, "0">>, <<BS, "g", "<", Chr(1632), ">">>}

InitFiles ==
  {<<IK, DQ>> \o v \o <<DQ, NL>> : v \in PrimaryVersions}
  \cup {<<"x", NL, IK, SQ>> \o Ver(1, 2, 3) \o <<SQ, NL>>,
        <<IK, DQ>> \o Ver(1, 2, 3) \o <<DQ, NL, IK, DQ>> \o Ver(1, 2, 0) \o <<DQ>>,
        <<"x", NL>>,
        <<IK, DQ, DQ>>}

SetupFiles ==
  {<<"x", NL, SK, DQ>> \o v \o <<DQ, CM, NL>> : v \in {Ver(1, 2, 3), Ver(1, 2, 0)}}
  \cup {<<SK, DQ>> \o v \o <<DQ, NL>> : v \in {Ver(1, 2, 3), Ver(1, 2, 0)}}
  \cup {<<SK, DQ>> \o Ver(1, 2, 0) \o <<DQ, CM, "x", SK, DQ, "3", DOT, "9", DQ, CM>>,
        <<"x", NL>>}

Args == {<<>>, <<"major">>, <<"minor">>, <<"patch">>, <<"sync">>, <<"bogus">>}

Subjects ==
  {<<"fix", ":", SP, "x">>, <<"feat", "(", "x", ")", ":", SP, "x">>,
   <<"x", "!", ":", SP, "x">>, <<"x">>}

SeqsUpTo(S, n) == UNION {[1..k -> S] : k \in 0..n}

\* ------------------------------------------------------------------ main
Init ==
  /\ initFile \in InitFiles
  /\ setupFile \in SetupFiles
  /\ argv \in Args
  /\ history \in SeqsUpTo(Subjects, MaxHistory)
  /\ tagAt \in 0..Len(history)
  /\ tags = <<>>
  /\ staged = FALSE
  /\ pc = "sync"
  /\ was_synced = FALSE
  /\ bump_type = "None"
  /\ commits = <<>>
  /\ current_version = <<>>
  /\ new_version = <<>>
  /\ out = <<>>
  /\ exit = -1
  /\ err = ""
  /\ writes = <<>>
  /\ cmds = <<>>
  /\ initFile0 = initFile
  /\ setupFile0 = setupFile
  /\ runs = <<>>

\* an uncaught exception ends the process with status 1
Abort(e) ==
  /\ pc' = "done"
  /\ exit' = 1
  /\ err' = e

\* the sync step with the direction reversed: __init__.py is rewritten to the
\* version of setup.py
SyncReversed ==
  /\ pc = "sync"
  /\ LET sv == get_setup_version(setupFile)
         Returned(r) ==
           /\ initFile' = IF r.wrote THEN UpdateInit(initFile, sv.version).text
                          ELSE initFile
           /\ writes' = IF r.wrote THEN Append(writes, "basicmicro/__init__.py")
                        ELSE writes
           /\ out' = out \o r.out
           /\ was_synced' = r.ret
           /\ runs' = Append(runs, r.ret)
           /\ IF r.err # "" THEN Abort(r.err)
              ELSE pc' = "mode" /\ UNCHANGED <<exit, err>>
     IN Returned(sync_versions(initFile, setupFile))
  /\ UNCHANGED <<setupFile, argv, history, tagAt, tags, staged, bump_type, commits,
                 current_version, new_version, cmds, initFile0, setupFile0>>

\* main, line 150: was_synced = sync_versions()
Sync ==
  /\ pc = "sync"
  /\ LET Returned(r) ==
           /\ setupFile' = r.setup
           /\ writes' = IF r.wrote THEN Append(writes, "setup.py") ELSE writes
           /\ out' = out \o r.out
           /\ was_synced' = r.ret
           /\ runs' = Append(runs, r.ret)
           /\ IF r.err # "" THEN Abort(r.err)
              ELSE pc' = "mode" /\ UNCHANGED <<exit, err>>
     IN Returned(sync_versions(initFile, setupFile))
  /\ UNCHANGED <<initFile, argv, history, tagAt, tags, staged, bump_type, commits,
                 current_version, new_version, cmds, initFile0, setupFile0>>

\* main, lines 152-165: the command line
ModeDecision ==
  /\ pc = "mode"
  /\ IF Len(argv) > 0
     THEN IF argv[1] \notin {"major", "minor", "patch", "sync"}
          THEN /\ out' = Append(out, "Usage")
               /\ pc' = "done"
               /\ exit' = 1
               /\ UNCHANGED bump_type
          ELSE IF argv[1] = "sync"
          THEN /\ out' = Append(out, IF was_synced THEN "sync completed"
                                     ELSE "were already in sync")
               /\ pc' = "done"
               /\ exit' = 0
               /\ UNCHANGED bump_type
          ELSE /\ bump_type' = argv[1]
               /\ pc' = "apply"
               /\ UNCHANGED <<out, exit>>
     ELSE /\ pc' = "auto"
          /\ UNCHANGED <<out, exit, bump_type>>
  /\ UNCHANGED <<initFile, setupFile, argv, history, tagAt, tags, staged, was_synced,
                 commits, current_version, new_version, err, writes, cmds,
                 initFile0, setupFile0, runs>>

\* main, lines 166-174: automatic mode
AutoDetermine ==
  /\ pc = "auto"
  /\ \E okDescribe \in BOOLEAN, okRange \in BOOLEAN, okAll \in BOOLEAN :
       LET Retrieved(r) ==
             LET b == determine_bump_type(r.commits)
             IN /\ cmds' = cmds \o r.cmds
                /\ IF r.err # ""
                   THEN Abort(r.err) /\ UNCHANGED <<commits, bump_type, out>>
                   ELSE /\ commits' = r.commits
                        /\ bump_type' = b
                        /\ UNCHANGED err
                        /\ IF b = "None"
                           THEN /\ out' = Append(out, IF was_synced
                                                      THEN "sync completed, no bump needed"
                                                      ELSE "No version bump needed")
                                /\ pc' = "done"
                                /\ exit' = 0
                           ELSE /\ pc' = "apply"
                                /\ UNCHANGED <<out, exit>>
       IN Retrieved(get_commits_since_last_tag(history, tagAt, okDescribe, okRange, okAll))
  /\ UNCHANGED <<initFile, setupFile, argv, history, tagAt, tags, staged, was_synced,
                 current_version, new_version, writes, initFile0, setupFile0, runs>>

\* update_version_files on the two contents: the exception that leaves it
\* ("" if none), the contents afterwards, the files written and the lines
\* printed.  A template re.sub rejects ends the call before the write that
\* would follow.
update_version_files(init, setup, version) ==
  LET Rewritten(i, s) ==
        IF i.err # ""
        THEN [err |-> i.err, init |-> init, setup |-> setup, writes |-> <<>>,
              out |-> <<>>]
        ELSE IF s.err # ""
        THEN [err |-> s.err, init |-> i.text, setup |-> setup,
              writes |-> <<"basicmicro/__init__.py">>, out |-> <<>>]
        ELSE [err |-> "", init |-> i.text, setup |-> s.text,
              writes |-> <<"basicmicro/__init__.py", "setup.py">>,
              out |-> <<"Updated version">>]
  IN Rewritten(UpdateInit(init, version), UpdateSetup(setup, version))

\* main, lines 176-180: read, bump, rewrite
Apply ==
  /\ pc = "apply"
  /\ LET cur == get_current_version(initFile)
         Rewritten(b, u) ==
           IF ~cur.ok
           THEN Abort("ValueError")
                /\ UNCHANGED <<initFile, setupFile, current_version, new_version, out,
                               writes>>
           ELSE IF b.err # ""
           THEN Abort(b.err)
                /\ current_version' = cur.version
                /\ UNCHANGED <<initFile, setupFile, new_version, out, writes>>
           ELSE /\ current_version' = cur.version
                /\ new_version' = b.version
                /\ initFile' = u.init
                /\ setupFile' = u.setup
                /\ writes' = writes \o u.writes
                /\ out' = out \o <<"Bumping version">> \o u.out
                /\ IF u.err # "" THEN Abort(u.err)
                   ELSE pc' = "add" /\ UNCHANGED <<exit, err>>
         Bumped(b) == Rewritten(b, update_version_files(initFile, setupFile, b.version))
     IN Bumped(bump_version(cur.version, bump_type))
  /\ UNCHANGED <<argv, history, tagAt, tags, staged, was_synced, bump_type, commits,
                 cmds, initFile0, setupFile0, runs>>

\* main, line 184: git add.  A git add that succeeds stages nothing when the
\* two files equal the ones of HEAD, and one that fails on one path (an
\* ignored one, say) may still have staged the other: either way the index
\* holds nothing or something of the two files afterwards.
GitAdd ==
  /\ pc = "add"
  /\ \E ok \in BOOLEAN :
       /\ cmds' = Append(cmds, Cmd("add", ok))
       /\ staged' \in BOOLEAN
       /\ IF ok THEN pc' = "commit" /\ UNCHANGED <<exit, err>>
          ELSE Abort("CalledProcessError")
  /\ UNCHANGED <<initFile, setupFile, argv, history, tagAt, tags, was_synced,
                 bump_type, commits, current_version, new_version, out, writes,
                 initFile0, setupFile0, runs>>

\* main, line 185: git commit
GitCommit ==
  /\ pc = "commit"
  /\ \E ok \in BOOLEAN :
       /\ cmds' = Append(cmds, Cmd("commit", ok))
       /\ IF ok
          THEN /\ history' = <<ReleaseSubject(new_version)>> \o history
               /\ tagAt' = IF tagAt > 0 THEN tagAt + 1 ELSE 0
               /\ staged' = FALSE
               /\ pc' = "tag"
               /\ UNCHANGED <<exit, err>>
          ELSE Abort("CalledProcessError") /\ UNCHANGED <<history, tagAt, staged>>
  /\ UNCHANGED <<initFile, setupFile, argv, tags, was_synced, bump_type, commits,
                 current_version, new_version, out, writes, initFile0, setupFile0,
                 runs>>

\* main, lines 183 and 186-189: git tag and the closing messages
GitTag ==
  /\ pc = "tag"
  /\ \E ok \in BOOLEAN :
       /\ cmds' = Append(cmds, Cmd("tag", ok))
       /\ IF ok
          THEN /\ tags' = Append(tags, TagName(new_version))
               /\ tagAt' = 1
               /\ out' = out \o <<"Created tag", "successfully bumped">>
               /\ pc' = "done"
               /\ exit' = 0
               /\ UNCHANGED err
          ELSE Abort("CalledProcessError") /\ UNCHANGED <<tags, tagAt, out>>
  /\ UNCHANGED <<initFile, setupFile, argv, history, staged, was_synced, bump_type,
                 commits, current_version, new_version, writes, initFile0,
                 setupFile0, runs>>

Next ==
  \/ Sync
  \/ ModeDecision
  \/ AutoDetermine
  \/ Apply
  \/ GitAdd
  \/ GitCommit
  \/ GitTag

Spec == Init /\ [][Next]_vars

\* ------------------------------------------------- bump_version on its own
PartValues == (0..MaxPart) \cup {9, 10, 99}

\* the ways a part is written that int() reads as the same number
Styles == {"plain", "zero", "space", "plus", "arabic", "underscore"}

Written(n, style) ==
  LET text == Numeral(n)
  IN CASE style = "plain" -> text
       [] style = "zero" -> <<"0">> \o text
       [] style = "space" -> <<SP>> \o text \o <<Chr(8195)>>
       [] style = "plus" -> <<"+">> \o text
       [] style = "arabic" -> [i \in 1..Len(text) |-> Chr(1632 + DigitValue(text[i]))]
       [] style = "underscore" -> <<"0", "_">> \o text

\* the numerals 99...9 and 00...0 of MaxStrDigits digits
Nines == [i \in 1..MaxStrDigits |-> "9"]
Zeros == [i \in 1..MaxStrDigits |-> "0"]

\* versions of three non-negative integers at the digit limit of int() and
\* str(): 10^4300 - 1 is the largest integer Python writes, 10^4300 the
\* least it does not read.  Each comes with the three bumps of it.
LimitInputs ==
  {[text |-> Nines \o <<DOT, "0", DOT, "0">>,
    major |-> <<"1">> \o Zeros \o <<DOT, "0", DOT, "0">>,
    minor |-> Nines \o <<DOT, "1", DOT, "0">>,
    patch |-> Nines \o <<DOT, "0", DOT, "1">>],
   [text |-> <<"0", DOT, "0", DOT>> \o Nines,
    major |-> <<"1", DOT, "0", DOT, "0">>,
    minor |-> <<"0", DOT, "1", DOT, "0">>,
    patch |-> <<"0", DOT, "0", DOT, "1">> \o Zeros],
   [text |-> <<"1">> \o Zeros \o <<DOT, "0", DOT, "0">>,
    major |-> <<"1">> \o Tail(Zeros) \o <<"1", DOT, "0", DOT, "0">>,
    minor |-> <<"1">> \o Zeros \o <<DOT, "1", DOT, "0">>,
    patch |-> <<"1">> \o Zeros \o <<DOT, "0", DOT, "1">>]}

\* the versions of three non-negative integers, each with the three bumps of
\* it
BumpInputs ==
  {[text |-> Written(x, s) \o <<DOT>> \o Written(y, s) \o <<DOT>> \o Written(z, s),
    major |-> Ver(x + 1, 0, 0), minor |-> Ver(x, y + 1, 0), patch |-> Ver(x, y, z + 1)] :
     s \in Styles, x \in PartValues, y \in PartValues, z \in PartValues}
  \cup LimitInputs

BumpVersions ==
  {v.text : v \in BumpInputs}
  \cup PrimaryVersions
  \cup {<<"1", DOT, DOT, "3">>, <<"1", DOT, "x", DOT, "3">>, <<"-", "1", DOT, "2", DOT, "3">>,
        <<"1", "_", DOT, "2", DOT, "3">>, <<"1", Chr(28), DOT, "2", DOT, "3">>,
        <<>>, Ver(1, 2, 3) \o <<DOT, "4">>}

BumpArgs == BumpKinds \cup {"sync", "bogus", "None", ""}

\* what a call may find in basicmicro/__init__.py
BumpManifests == {<<IK, DQ>> \o v \o <<DQ, NL>> : v \in {Ver(1, 2, 3), Ver(1, 9, 9)}}

InitBump ==
  /\ current_version \in BumpVersions
  /\ bump_type \in BumpArgs
  /\ pc = "bump"
  /\ initFile \in BumpManifests
  /\ setupFile = <<>>
  /\ argv = <<>>
  /\ history = <<>>
  /\ tagAt = 0
  /\ tags = <<>>
  /\ staged = FALSE
  /\ was_synced = FALSE
  /\ commits = <<>>
  /\ new_version = <<>>
  /\ out = <<>>
  /\ exit = -1
  /\ err = ""
  /\ writes = <<>>
  /\ cmds = <<>>
  /\ initFile0 = initFile
  /\ setupFile0 = <<>>
  /\ runs = <<>>

\* one more call bump_version(current_version, bump_type)
Bump ==
  /\ pc = "bump"
  /\ Len(runs) < MaxRuns
  /\ LET Returned(r) == new_version' = r.version /\ err' = r.err /\ runs' = Append(runs, r)
     IN Returned(bump_version(current_version, bump_type))
  /\ pc' = IF Len(runs) + 1 = MaxRuns THEN "done" ELSE "bump"
  /\ UNCHANGED <<initFile, setupFile, argv, history, tagAt, tags, staged, was_synced,
                 bump_type, commits, current_version, out, exit, writes, cmds,
                 initFile0, setupFile0>>

SpecBump == InitBump /\ [][Bump]_vars

\* ------------------------------------------ determine_bump_type on its own
ClassifySubjects ==
  Subjects
  \cup {<<"fix", "(", "x", ")", ":", SP, "x">>, <<"perf", ":", SP, "x">>,
        <<"perf", "(", "x", ")", ":", SP, "x">>, <<"feat", ":", SP, "x">>,
        <<"fix", SP, ":", "x">>, <<"x", "feat">>}

InitClassify ==
  /\ commits \in SeqsUpTo(ClassifySubjects, MaxCommits)
  /\ pc = "classify"
  /\ bump_type = ""
  /\ initFile = <<>>
  /\ setupFile = <<>>
  /\ argv = <<>>
  /\ history = <<>>
  /\ tagAt = 0
  /\ tags = <<>>
  /\ staged = FALSE
  /\ was_synced = FALSE
  /\ current_version = <<>>
  /\ new_version = <<>>
  /\ out = <<>>
  /\ exit = -1
  /\ err = ""
  /\ writes = <<>>
  /\ cmds = <<>>
  /\ initFile0 = <<>>
  /\ setupFile0 = <<>>
  /\ runs = <<>>

\* one call determine_bump_type(commits)
Classify ==
  /\ pc = "classify"
  /\ bump_type' = determine_bump_type(commits)
  /\ pc' = "done"
  /\ UNCHANGED <<initFile, setupFile, argv, history, tagAt, tags, staged, was_synced,
                 commits, current_version, new_version, out, exit, err, writes, cmds,
                 initFile0, setupFile0, runs>>

SpecClassify == InitClassify /\ [][Classify]_vars

\* ------------------------------------------------ sync_versions, repeated
InitSync ==
  /\ initFile \in InitFiles
  /\ setupFile \in SetupFiles
  /\ pc = "sync"
  /\ runs = <<>>
  /\ argv = <<"sync">>
  /\ history = <<>>
  /\ tagAt = 0
  /\ tags = <<>>
  /\ staged = FALSE
  /\ was_synced = FALSE
  /\ bump_type = "None"
  /\ commits = <<>>
  /\ current_version = <<>>
  /\ new_version = <<>>
  /\ out = <<>>
  /\ exit = -1
  /\ err = ""
  /\ writes = <<>>
  /\ cmds = <<>>
  /\ initFile0 = initFile
  /\ setupFile0 = setupFile

\* one more call of sync_versions with no edit in between; setupFile0 keeps
\* the content the call found
SyncRun ==
  /\ pc = "sync"
  /\ Len(runs) < MaxRuns
  /\ LET Returned(r) ==
           /\ setupFile' = r.setup
           /\ setupFile0' = setupFile
           /\ writes' = IF r.wrote THEN Append(writes, "setup.py") ELSE writes
           /\ out' = out \o r.out
           /\ was_synced' = r.ret
           /\ runs' = Append(runs, r.ret)
           /\ IF r.err # "" THEN Abort(r.err) ELSE UNCHANGED <<pc, exit, err>>
     IN Returned(sync_versions(initFile, setupFile))
  /\ UNCHANGED <<initFile, argv, history, tagAt, tags, staged, bump_type, commits,
                 current_version, new_version, cmds, initFile0>>

SpecSync == InitSync /\ [][SyncRun]_vars

\* ================================================================ claims
Range(f) == {f[i] : i \in DOMAIN f}

Ran(names) == \E i \in 1..Len(cmds) : cmds[i].cmd \in names

InvalidArg ==
  Len(argv) > 0 /\ argv[1] \notin {"major", "minor", "patch", "sync"}

BothFieldsAtStart ==
  get_current_version(initFile0).ok /\ get_setup_version(setupFile0).ok

\* C1 (as claimed; refuted): a run with an argument other than major, minor,
\* patch or sync, started on manifests that both carry a version, prints the
\* usage message and exits with status 1 having written neither manifest and
\* run no git command.
C1_InvalidArgTouchesNothing ==
  (InvalidArg /\ BothFieldsAtStart /\ pc = "done") =>
     /\ "Usage" \in Range(out)
     /\ exit = 1
     /\ writes = <<>>
     /\ initFile = initFile0
     /\ setupFile = setupFile0
     /\ cmds = <<>>

BumpedAndTagged == pc = "done" /\ exit = 0 /\ tags # <<>>

\* C2 (as claimed; refuted): when a run ends bumped and tagged, and setup.py
\* carried a double-quoted version="..." assignment (with or without a comma
\* after it), both manifests read back the new version
\* bump_version(current_version, bump_type) and the one tag created is
\* v<new version>.
C2_BothManifestsHoldNewVersion ==
  (BumpedAndTagged /\ get_setup_version(setupFile0).ok) =>
     /\ new_version = bump_version(current_version, bump_type).version
     /\ get_current_version(initFile) = [ok |-> TRUE, version |-> new_version]
     /\ get_setup_version(setupFile) = [ok |-> TRUE, version |-> new_version]
     /\ tags = <<TagName(new_version)>>

\* the three bumps of each version of three non-negative integers
BumpInputOf ==
  [t \in {v.text : v \in BumpInputs} |-> CHOOSE v \in BumpInputs : v.text = t]

\* C3 (as claimed; refuted): for a version "X.Y.Z" of three non-negative
\* integers, however int() lets them be written, bump_version returns
\* (X+1).0.0 for major, X.(Y+1).0 for minor and X.Y.(Z+1) for patch, and
\* raises its ValueError, returning nothing, for any other bump kind; the
\* result depends on the two arguments only: every call with them gives the
\* same, whatever __init__.py holds, and a call writes no file, runs no
\* command and prints nothing.
C3_BumpRule ==
  Len(runs) >= 1 =>
    /\ \A i \in 1..Len(runs) : runs[i] = [err |-> err, version |-> new_version]
    /\ initFile = initFile0 /\ setupFile = setupFile0
    /\ writes = <<>> /\ cmds = <<>> /\ out = <<>>
    /\ current_version \in DOMAIN BumpInputOf =>
         LET v == BumpInputOf[current_version]
         IN /\ bump_type = "major" => err = "" /\ new_version = v.major
            /\ bump_type = "minor" => err = "" /\ new_version = v.minor
            /\ bump_type = "patch" => err = "" /\ new_version = v.patch
            /\ bump_type \notin {"major", "minor", "patch"} =>
                  err = "ValueError" /\ new_version = <<>>

HasMark(cs, marks) ==
  \E i \in 1..Len(cs) : \E m \in marks : Contains(cs[i], m)

Permuted(cs, p) == [i \in 1..Len(cs) |-> cs[p[i]]]

\* C4: determine_bump_type returns major if a message contains "!", else
\* minor if one contains "feat:" or "feat(", else patch if one contains
\* "fix:", "fix(", "perf:" or "perf(", else None (so for no messages); every
\* permutation of the messages gives the same result.
C4_Precedence ==
  pc = "done" =>
    /\ bump_type =
         IF HasMark(commits, {<<"!">>}) THEN "major"
         ELSE IF HasMark(commits, {<<"feat", ":">>, <<"feat", "(">>}) THEN "minor"
         ELSE IF HasMark(commits, {<<"fix", ":">>, <<"fix", "(">>,
                                   <<"perf", ":">>, <<"perf", "(">>}) THEN "patch"
         ELSE "None"
    /\ commits = <<>> => bump_type = "None"
    /\ \A p \in Permutations(1..Len(commits)) :
          determine_bump_type(Permuted(commits, p)) = bump_type

C4_Witness ==
  /\ pc = "done"
  /\ Len(commits) >= 2
  /\ Contains(commits[1], <<"feat", ":">>)
  /\ HasMark(commits, {<<"!">>})
  /\ bump_type = "major"

\* C5 (as claimed; refuted): when both manifests carry a version, the second
\* of two sync_versions calls in a row returns False and leaves setup.py as
\* the first call left it.
C5_SyncIdempotent ==
  (Len(runs) = 2 /\ get_current_version(initFile0).ok
     /\ get_setup_version(setupFile0).ok) =>
        /\ runs[2] = FALSE
        /\ setupFile = setupFile0

SyncedOnly == pc = "done" /\ err = "" /\ argv = <<"sync">>

NoBumpNeeded == pc = "done" /\ err = "" /\ argv = <<>> /\ bump_type = "None"

\* C6: a run that ends synced only or with no bump needed leaves __init__.py
\* as it was, leaves setup.py as the sync step left it (written at most once,
\* and only if the sync reported a change), runs no git add, commit or tag,
\* and exits with status 0.
C6_QuietEnds ==
  (SyncedOnly \/ NoBumpNeeded) =>
     /\ initFile = initFile0
     /\ setupFile = sync_versions(initFile0, setupFile0).setup
     /\ writes = IF was_synced THEN <<"setup.py">> ELSE <<>>
     /\ ~Ran({"add", "commit", "tag"})
     /\ exit = 0

C6_Witness ==
  /\ NoBumpNeeded
  /\ was_synced
  /\ setupFile # setupFile0
  /\ Ran({"log range"})

\* C7: the sync step aborts the run, in every mode, with nothing written and
\* no git command run when __init__.py has no version field; when only
\* setup.py has none it prints a warning, writes nothing, reports that no
\* sync was done and the run goes on to the mode decision.
C7_MissingField ==
  [][pc = "sync" =>
       /\ ~get_current_version(initFile).ok =>
             /\ pc' = "done" /\ exit' = 1 /\ err' = "ValueError"
             /\ writes' = <<>> /\ cmds' = <<>>
             /\ initFile' = initFile /\ setupFile' = setupFile
       /\ (get_current_version(initFile).ok /\ ~get_setup_version(setupFile).ok) =>
             /\ pc' = "mode" /\ exit' = -1 /\ err' = ""
             /\ "Warning" \in Range(out')
             /\ was_synced' = FALSE
             /\ writes' = <<>> /\ cmds' = <<>>
             /\ initFile' = initFile /\ setupFile' = setupFile]_vars

C7_Witness ==
  /\ pc = "apply"
  /\ get_current_version(initFile0).ok
  /\ ~get_setup_version(setupFile0).ok
  /\ out = <<"Warning">>
  /\ writes = <<>>

\* old and new are equal, or differ in nothing but the value of one field of
\* old that matches pat
OnlyValueDiffers(old, new, pat) ==
  \/ old = new
  \/ \E i \in 1..Len(old) :
        /\ CloseAt(old, i, pat) > 0
        /\ LET c == CloseAt(old, i, pat)
               k == Len(old) - c + 1
           IN /\ Len(new) >= i + 1 + k
              /\ SubSeq(new, 1, i + 1) = SubSeq(old, 1, i + 1)
              /\ SubSeq(new, Len(new) - k + 1, Len(new)) = SubSeq(old, c, Len(old))

\* C8 (as claimed; refuted): the rewrites of a run change nothing of either
\* manifest but the version value of one matched field.
C8_RewriteKeepsOtherBytes ==
  /\ OnlyValueDiffers(initFile0, initFile, InitPattern)
  /\ OnlyValueDiffers(setupFile0, setupFile, SetupReadPattern)

LogLines(subjects) == [i \in 1..Len(subjects) |-> <<HASH, SP>> \o subjects[i]]

AfterRetrieval == argv = <<>> /\ (pc = "apply" \/ NoBumpNeeded)

\* C9 (as claimed; refuted): when git describe found a latest tag, the
\* commits returned are exactly those strictly after the tag, and the whole
\* history is not asked for: it is returned only when there is no tag.
C9_NoTagDistinguished ==
  (AfterRetrieval /\ Cmd("describe", TRUE) \in Range(cmds)) =>
     /\ commits = LogLines(SinceTag(history, tagAt))
     /\ ~Ran({"log"})

GitFailed == pc = "done" /\ err = "CalledProcessError"

\* C10 (as claimed; refuted): in every run that a failed git command ends,
\* step 4 has already written the new version to both manifests and they
\* still hold it, the failed command is one of the bump path (add, commit or
\* tag) and the last command run, a failed add has run no commit and a failed
\* commit has created no tag, and the exit status is not 0.
C10_FailureOnlyAfterRewrite ==
  GitFailed =>
    LET last == cmds[Len(cmds)]
    IN /\ new_version # <<>>
       /\ new_version = bump_version(get_current_version(initFile0).version,
                                     bump_type).version
       /\ get_current_version(initFile) = [ok |-> TRUE, version |-> new_version]
       /\ get_setup_version(setupFile) = [ok |-> TRUE, version |-> new_version]
       /\ last.cmd \in {"add", "commit", "tag"} /\ ~last.ok
       /\ last.cmd = "add" => ~Ran({"commit", "tag"})
       /\ last.cmd = "commit" => ~Ran({"tag"})
       /\ tags = <<>>
       /\ exit # 0

====
